---- MODULE Spec2Model ----
(***************************************************************************)
(* create_and_fetch_identity (src/function.py): an existence probe on the  *)
(* fetch endpoint, a conditional create call, a fixed settle delay and a   *)
(* bounded retry loop over the fetch endpoint.                             *)
(*                                                                         *)
(* One invocation is a coroutine.  Its state is the record inv[i]; pc is   *)
(* the await it is suspended at.  Every action resumes the coroutine from  *)
(* one await and runs it to the next one (or to its end), as the event     *)
(* loop does.  The remote service, the latencies and the timer overshoot   *)
(* are the environment: they are drawn from small sets.                    *)
(***************************************************************************)
EXTENDS Integers, Sequences, FiniteSets

VARIABLES inv, remote

vars == <<inv, remote>>

(***************************************************************************)
(* Bounds of the model and constants of the program.                       *)
(***************************************************************************)
\* a call that does not time out takes CallLatency time-units
CallLatency == 1
\* asyncio.sleep(d) resumes d..d+MaxOvershoot time-units after it was called
MaxOvershoot == 1

\* aiohttp.ClientTimeout(total=60): the total time allowed to one request
TIMEOUT_TOTAL == 60
\* await asyncio.sleep(10)
SETTLE_DELAY == 10
max_retries == 3
retry_delays == <<5, 10, 15>>

Invs == {1, 2}
Addrs == {"0xA", "0xB"}

(***************************************************************************)
(* Python / JSON values.  A value is a record of its type and its text, so *)
(* that the string "0" and the integer 0 are different values.             *)
(***************************************************************************)
Str(s) == [t |-> "str", v |-> s]
PyNone == [t |-> "none", v |-> ""]
Int0 == [t |-> "int", v |-> "0"]
\* the key "data" is missing from the JSON object
Absent == [t |-> "absent", v |-> ""]

\* a non-empty map of HTTP headers
HeaderMap == [t |-> "dict", v |-> "Authorization"]
\* the arguments (user, headers) the concurrent invocations are called with;
\* None is the default of headers (line 1)
CallArgs == {<<"alice", PyNone>>, <<"bob", HeaderMap>>}

Ids == {Str("abc"), Str("xyz")}
DataValues == {Absent, PyNone, Str(""), Str("0"), Int0} \cup Ids

\* dict.get("data"): None when the key is missing
DictGet(d) == IF d = Absent THEN PyNone ELSE d

\* bool(x) of a Python value
Truthy(x) ==
    CASE x.t = "none" -> FALSE
      [] x.t = "absent" -> FALSE
      [] x.t = "str" -> x.v # ""
      [] x.t = "int" -> x.v # "0"
      [] OTHER -> TRUE

\* the test of lines 24-27 and of line 67 with data "" accepted: present and not "0"
IsValidIdPresent(d) == DictGet(d) # PyNone /\ d # Str("0")

\* the test of lines 24-27 and of line 67 without the comparison with "0"
IsValidIdNoSentinel(d) == Truthy(DictGet(d))

\* fetch_data.get("data") and fetch_data["data"] != "0"
IsValidId(d) == Truthy(DictGet(d)) /\ d # Str("0")

(***************************************************************************)
(* Responses.  kind "ok": a 2xx status and a JSON object body, whose data  *)
(* field is data.  "status": a non-2xx status (raise_for_status raises);   *)
(* "transport": the request fails; "timeout": the request exceeds the      *)
(* session's total timeout (asyncio.TimeoutError); "malformed": 2xx, but   *)
(* json() raises, or the JSON is not an object and .get raises.            *)
(***************************************************************************)
Resp(k, d) == [kind |-> k, data |-> d]
NoResp == Resp("none", Absent)

FetchResponses ==
    {Resp("ok", d) : d \in DataValues}
        \cup {Resp(k, Absent) : k \in {"status", "transport", "timeout", "malformed"}}

CreateResponses ==
    {Resp(k, Absent) : k \in {"ok", "malformed", "status", "transport", "timeout"}}

\* the session built without timeout=timeout: aiohttp's default total of 300
LatencyDefaultTimeout(r) == IF r.kind = "timeout" THEN 300 ELSE CallLatency

\* the time a call with response r takes: the session's timeout (lines 10-12)
\* is the total allowed to each request made on it, one request at a time
Latency(r) == IF r.kind = "timeout" THEN TIMEOUT_TOTAL ELSE CallLatency
Overshoots == 0..MaxOvershoot

(***************************************************************************)
(* The state of one invocation.                                            *)
(***************************************************************************)
Idle ==
    [pc |-> "idle", user |-> "", headers |-> PyNone,
     addr |-> "", session |-> "unopened", attempt |-> 0,
     probeResp |-> NoResp, createResp |-> NoResp, fetchLog |-> <<>>,
     reqs |-> <<>>, waits |-> <<>>, clock |-> 0, netTime |-> 0,
     result |-> PyNone, exit |-> "none"]

Suspended == {"probe", "create", "settle", "fetch", "retry_wait"}

\* session.post(url, json=data, headers=headers): the caller's headers are sent
PostWithHeaders(s, ep, next) ==
    [s EXCEPT !.pc = next,
              !.reqs = Append(@, [ep |-> ep, body |-> s.addr, hdrs |-> s.headers,
                                  at |-> s.clock, end |-> -1])]

\* session.post(url, json=data), data = {"walletAddress": user_address} (line 6):
\* the request is issued at time at, with no headers of the caller's (hdrs is
\* None), and the coroutine waits for its end
Post(s, ep, next) ==
    [s EXCEPT !.pc = next,
              !.reqs = Append(@, [ep |-> ep, body |-> s.addr, hdrs |-> PyNone,
                                  at |-> s.clock, end |-> -1])]

\* the response arrives (or the call fails) after d time-units
Arrive(s, d) ==
    [s EXCEPT !.clock = @ + d, !.netTime = @ + d,
              !.reqs[Len(s.reqs)].end = s.clock + d]

\* asyncio.sleep(d) is called
Sleep(s, d, next) == [s EXCEPT !.pc = next, !.waits = Append(@, d)]

\* a return with the session left open (no async with around the session)
ReturnLeaksSession(s, v, how) ==
    [s EXCEPT !.pc = "done", !.result = v, !.exit = how]

\* a return statement: the session's async with block is left, the session closed
Return(s, v, how) ==
    [s EXCEPT !.pc = "done", !.result = v, !.exit = how,
              !.session = IF @ = "open" THEN "closed" ELSE @]

\* line 91 missing: the exception leaves the function
ReturnErrorRaises(s) == [Return(s, PyNone, "error") EXCEPT !.pc = "raised"]

\* an exception reaches the handler of line 91: return None
ReturnError(s) == Return(s, PyNone, "error")

(***************************************************************************)
(* The steps of create_and_fetch_identity, each from one await to the next *)
(***************************************************************************)
\* line 1: the arguments user and headers of the call
Call(s, u, h) == [s EXCEPT !.user = u, !.headers = h]

\* lines 1-20: the call; the session is constructed and the probe is issued
Begin(s, a, sessionOk) ==
    IF sessionOk
    THEN Post([s EXCEPT !.addr = a, !.session = "open"], "get", "probe")
    ELSE ReturnError([s EXCEPT !.addr = a])

\* lines 17-43 with the probe's result ignored: create is always called
ProbeDoneAlwaysCreate(s, r, d) ==
    Post([Arrive(s, d) EXCEPT !.probeResp = r], "create", "create")

\* lines 17-43 with a failed probe tried a second time before the create call
ProbeDoneRetry(s, r, d) ==
    LET s1 == [Arrive(s, d) EXCEPT !.probeResp = r]
    IN  IF r.kind = "ok" /\ IsValidId(r.data)
        THEN Return(s1, r.data, "probe_hit")
        ELSE IF Len(s1.reqs) < 2
             THEN Post(s1, "get", "probe")
             ELSE Post(s1, "create", "create")

\* lines 17-43 with a failed probe ending the invocation
ProbeDoneFatal(s, r, d) ==
    LET s1 == [Arrive(s, d) EXCEPT !.probeResp = r]
    IN  IF r.kind = "ok"
        THEN IF IsValidId(r.data) THEN Return(s1, r.data, "probe_hit")
             ELSE Post(s1, "create", "create")
        ELSE ReturnError(s1)

\* lines 17-43: the probe's response r arrives; a valid identifier is
\* returned (line 30), anything else (line 31, line 35) leads to the create call
ProbeDone(s, r, d) ==
    LET s1 == [Arrive(s, d) EXCEPT !.probeResp = r]
    IN  IF r.kind = "ok" /\ IsValidId(r.data)
        THEN Return(s1, r.data, "probe_hit")
        ELSE Post(s1, "create", "create")

\* lines 43-52 with a failed create call tried once more
CreateDoneRetry(s, r, d) ==
    LET s1 == [Arrive(s, d) EXCEPT !.createResp = r]
    IN  IF r.kind = "ok"
        THEN Sleep(s1, SETTLE_DELAY, "settle")
        ELSE IF Len(s1.reqs) < 3
             THEN Post(s1, "create", "create")
             ELSE ReturnError(s1)

\* lines 43-52 with the status of the create response not checked
CreateDoneUnchecked(s, r, d) ==
    LET s1 == [Arrive(s, d) EXCEPT !.createResp = r]
    IN  Sleep(s1, SETTLE_DELAY, "settle")

\* lines 43-52: the create response r arrives; raise_for_status or json()
\* raising ends the invocation (line 91), otherwise sleep(10) is called
CreateDone(s, r, d) ==
    LET s1 == [Arrive(s, d) EXCEPT !.createResp = r]
    IN  IF r.kind = "ok"
        THEN Sleep(s1, SETTLE_DELAY, "settle")
        ELSE ReturnError(s1)

\* lines 52-62 with the settle delay cut short
SettleDoneEarly(s, over) ==
    Post([s EXCEPT !.clock = @ + over, !.attempt = 0], "get", "fetch")

\* lines 52-62: sleep(10) is over; the loop starts, attempt 0 is issued
SettleDone(s, over) ==
    Post([s EXCEPT !.clock = @ + SETTLE_DELAY + over, !.attempt = 0],
         "get", "fetch")

\* line 82 off by one: a wait follows the last attempt too
WaitAfterLast(attempt) == attempt < max_retries

\* line 82: if attempt < max_retries - 1
WaitAfter(attempt) == attempt < max_retries - 1

\* lines 58-89 without the try of line 59: a raising attempt ends the invocation
FetchDoneFatal(s, r, d) ==
    LET s1 == [Arrive(s, d) EXCEPT !.fetchLog = Append(@, r)]
    IN  IF r.kind # "ok"
        THEN ReturnError(s1)
        ELSE IF IsValidId(r.data)
             THEN Return(s1, r.data, "fetch_hit")
             ELSE IF WaitAfter(s.attempt)
                  THEN Sleep(s1, retry_delays[s.attempt + 1], "retry_wait")
                  ELSE Return(s1, PyNone, "exhausted")

\* lines 58-89 with line 89 replaced by a wait for an event nobody sets
FetchDoneHangs(s, r, d) ==
    LET s1 == [Arrive(s, d) EXCEPT !.fetchLog = Append(@, r)]
    IN  IF r.kind = "ok" /\ IsValidId(r.data)
        THEN Return(s1, r.data, "fetch_hit")
        ELSE IF WaitAfter(s.attempt)
             THEN Sleep(s1, retry_delays[s.attempt + 1], "retry_wait")
             ELSE [s1 EXCEPT !.pc = "blocked"]

\* lines 58-89 with the first valid identifier not returned at once
FetchDoneNoReturn(s, r, d) ==
    LET s1 == [Arrive(s, d) EXCEPT !.fetchLog = Append(@, r)]
    IN  IF r.kind = "ok" /\ IsValidId(r.data) /\ s.attempt = max_retries - 1
        THEN Return(s1, r.data, "fetch_hit")
        ELSE IF WaitAfter(s.attempt)
             THEN Sleep(s1, retry_delays[s.attempt + 1], "retry_wait")
             ELSE Return(s1, PyNone, "exhausted")

\* lines 58-89: the response r of attempt s.attempt arrives; a valid identifier
\* is returned (line 72); otherwise sleep(retry_delays[attempt]) is called, or,
\* after the last attempt, None is returned (line 89)
FetchDone(s, r, d) ==
    LET s1 == [Arrive(s, d) EXCEPT !.fetchLog = Append(@, r)]
    IN  IF r.kind = "ok" /\ IsValidId(r.data)
        THEN Return(s1, r.data, "fetch_hit")
        ELSE IF WaitAfter(s.attempt)
             THEN Sleep(s1, retry_delays[s.attempt + 1], "retry_wait")
             ELSE Return(s1, PyNone, "exhausted")

\* lines 85, 58-62: the retry wait is over; the next attempt is issued
RetryDone(s, over) ==
    Post([s EXCEPT !.clock = @ + retry_delays[s.attempt + 1] + over,
                   !.attempt = @ + 1], "get", "fetch")

\* the task is cancelled while it is suspended: CancelledError is raised at the
\* await; it is a BaseException, which lines 35, 78 and 91 (except Exception)
\* do not catch, so it leaves the function once the session is closed
Cancelled(s) == [Return(s, PyNone, "cancelled") EXCEPT !.pc = "raised"]

(***************************************************************************)
(* Spec: one invocation, against an arbitrary remote service.              *)
(***************************************************************************)
Init == inv = [i \in Invs |-> Idle] /\ remote = [a \in Addrs |-> PyNone]

\* the loop counter kept in a variable of the module, shared by the invocations
SetSharedAttempt(i, s) ==
    inv' = [j \in Invs |-> IF j = i THEN s
                                    ELSE [inv[j] EXCEPT !.attempt = s.attempt]]

\* a step of invocation i: all it reads and writes are its own locals and its
\* own session (lines 2-12)
Set(i, s) == inv' = [inv EXCEPT ![i] = s]

Invoke(i) ==
    /\ inv[i].pc = "idle"
    /\ \E a \in Addrs, ok \in BOOLEAN :
          Set(i, Begin(Call(inv[i], "alice", PyNone), a, ok))
    /\ UNCHANGED remote

ProbeReturns(i) ==
    /\ inv[i].pc = "probe"
    /\ \E r \in FetchResponses : Set(i, ProbeDone(inv[i], r, Latency(r)))
    /\ UNCHANGED remote

CreateReturns(i) ==
    /\ inv[i].pc = "create"
    /\ \E r \in CreateResponses : Set(i, CreateDone(inv[i], r, Latency(r)))
    /\ UNCHANGED remote

SettleElapses(i) ==
    /\ inv[i].pc = "settle"
    /\ \E over \in Overshoots : Set(i, SettleDone(inv[i], over))
    /\ UNCHANGED remote

FetchReturns(i) ==
    /\ inv[i].pc = "fetch"
    /\ \E r \in FetchResponses : Set(i, FetchDone(inv[i], r, Latency(r)))
    /\ UNCHANGED remote

RetryElapses(i) ==
    /\ inv[i].pc = "retry_wait"
    /\ \E over \in Overshoots : Set(i, RetryDone(inv[i], over))
    /\ UNCHANGED remote

Cancel(i) ==
    /\ inv[i].pc \in Suspended
    /\ Set(i, Cancelled(inv[i]))
    /\ UNCHANGED remote

Next ==
    \/ Invoke(1)
    \/ ProbeReturns(1)
    \/ CreateReturns(1)
    \/ SettleElapses(1)
    \/ FetchReturns(1)
    \/ RetryElapses(1)
    \/ Cancel(1)

Spec == Init /\ [][Next]_vars

(***************************************************************************)
(* What the claims speak of, read off the record of an invocation.         *)
(***************************************************************************)
I == inv[1]

NCalls(s, ep) == Cardinality({j \in 1..Len(s.reqs) : s.reqs[j].ep = ep})

\* a data value that is present and is not the sentinel "0"
PresentNonSentinel(d) == d \notin {Absent, PyNone, Str("0")}

\* a data value that is present, not the sentinel, and not falsy in Python
NonEmptyNonSentinel(d) == d \notin {Absent, PyNone, Str("0"), Str(""), Int0}

\* the invocation returned (it did not raise)
Returned(s) == s.pc = "done"

\* the waits that precede attempt k of the loop
WaitsBefore(k) == <<10>> \o SubSeq(<<5, 10>>, 1, k - 1)

\* C1 as stated: whenever the probe's response carries a data value v that is
\* present and not the sentinel "0", the invocation returns exactly v, having
\* called create never, slept never, and called the fetch endpoint once.
C1_Original ==
    (I.probeResp.kind = "ok" /\ PresentNonSentinel(I.probeResp.data))
        => /\ Returned(I)
           /\ I.result = I.probeResp.data
           /\ NCalls(I, "create") = 0
           /\ I.waits = <<>>
           /\ NCalls(I, "get") = 1

\* C1, amended: whenever the probe's response carries a data value v that is
\* present, not the sentinel "0" and not empty (not falsy), the invocation
\* returns exactly v, having called create never, slept never, and called the
\* fetch endpoint exactly once, with the caller's wallet address.
C1_ProbeHit ==
    (I.probeResp.kind = "ok" /\ NonEmptyNonSentinel(I.probeResp.data))
        => /\ Returned(I)
           /\ I.result = I.probeResp.data
           /\ NCalls(I, "create") = 0
           /\ I.waits = <<>>
           /\ NCalls(I, "get") = 1
           /\ I.reqs[1].body = I.addr

C1_Witness ==
    /\ Returned(I) /\ I.exit = "probe_hit" /\ I.result = Str("xyz")
    /\ I.addr = "0xB"

\* the probe outcomes C2 names: data "0", data null or absent, or the call throws
ProbeFailed(r) ==
    \/ r.kind = "ok" /\ r.data \in {Str("0"), PyNone, Absent}
    \/ r.kind \in {"transport", "status", "malformed", "timeout"}

\* C2: once the probe has returned data "0", null or no data, or has thrown,
\* the create endpoint has been called exactly once, in every later state of
\* the invocation, whatever the fetch attempts return.
C2_CreateOnce == ProbeFailed(I.probeResp) => NCalls(I, "create") = 1

C2_Witness ==
    /\ I.probeResp.kind = "timeout" /\ I.exit = "exhausted"
    /\ Len(I.fetchLog) = 3 /\ NCalls(I, "create") = 1

\* C3: once the create call has returned a non-2xx status or has failed in
\* transport, the invocation has returned None, no sleep was called, and the
\* create call is the last request: the loop was not entered.
C3_CreateFatal ==
    I.createResp.kind \in {"status", "transport", "timeout"}
        => /\ Returned(I) /\ I.result = PyNone
           /\ I.waits = <<>>
           /\ I.fetchLog = <<>>
           /\ Len(I.reqs) = 2 /\ I.reqs[2].ep = "create"

C3_Witness == I.createResp.kind = "status" /\ Returned(I) /\ I.exit = "error"

\* C4: every request issued after the create call is issued at least 10
\* time-units after the end of the create call, and only after a create call
\* that succeeded.
C4_SettleDelay ==
    \A j \in 1..Len(I.reqs) :
        j > 2 => /\ I.reqs[2].ep = "create" /\ I.createResp.kind = "ok"
                 /\ I.reqs[2].end >= 0
                 /\ I.reqs[j].at >= I.reqs[2].end + 10

C4_Witness ==
    /\ Len(I.reqs) = 3 /\ I.reqs[3].ep = "get"
    /\ I.reqs[3].at = I.reqs[2].end + 10

\* the attempts of the loop whose response is a success carrying a data value
\* that satisfies P
Yielding(s, P(_)) ==
    {j \in 1..Len(s.fetchLog) : s.fetchLog[j].kind = "ok" /\ P(s.fetchLog[j].data)}

First(S) == CHOOSE k \in S : \A j \in S : k <= j

\* the invocation returned the data of attempt k at once: k calls in the loop,
\* the waits 10, then 5 and 10 between the attempts, nothing after attempt k
ResolvedAt(s, k) ==
    /\ Returned(s)
    /\ s.result = s.fetchLog[k].data
    /\ Len(s.fetchLog) = k
    /\ NCalls(s, "get") = 1 + k /\ Len(s.reqs) = 2 + k
    /\ s.reqs[Len(s.reqs)].ep = "get"
    /\ s.waits = WaitsBefore(k)

\* C5 as stated: if attempt k is the first of the loop to yield a data value
\* that is present and not "0", the invocation returns that value after
\* exactly k fetch calls in the loop, having waited 5 between attempts 1 and 2
\* and 10 between attempts 2 and 3, with no wait or call after attempt k.
C5_Original ==
    Yielding(I, PresentNonSentinel) # {}
        => ResolvedAt(I, First(Yielding(I, PresentNonSentinel)))

\* C5, amended: if attempt k is the first of the loop to yield a data value
\* that is present, not "0" and not empty (not falsy), the invocation returns
\* that value after exactly k fetch calls in the loop, having waited 5 between
\* attempts 1 and 2 and 10 between attempts 2 and 3, with no wait or call
\* after attempt k.
C5_FirstValid ==
    Yielding(I, NonEmptyNonSentinel) # {}
        => ResolvedAt(I, First(Yielding(I, NonEmptyNonSentinel)))

C5_Witness ==
    /\ Len(I.fetchLog) = 3 /\ I.exit = "fetch_hit" /\ I.result = Str("xyz")
    /\ I.fetchLog[1] = Resp("ok", Str("0")) /\ I.fetchLog[2] = Resp("ok", Str("0"))
    /\ I.waits = <<10, 5, 10>>

\* C6: once 3 attempts of the loop have ended without a valid identifier, the
\* invocation has returned None; attempt 3 is its last request and the waits
\* are 10, 5, 10: the 15 of the delay table is never waited.
C6_Exhausted ==
    (Len(I.fetchLog) >= 3 /\ Yielding(I, NonEmptyNonSentinel) = {})
        => /\ Returned(I) /\ I.result = PyNone
           /\ Len(I.fetchLog) = 3
           /\ Len(I.reqs) = 5 /\ NCalls(I, "get") = 4
           /\ I.waits = <<10, 5, 10>>

C6_Witness ==
    /\ I.exit = "exhausted" /\ Returned(I)
    /\ \A j \in 1..3 : I.fetchLog[j] = Resp("ok", Str("0"))

\* C7 as stated: the invocation never ends by raising.
C7_Original == I.pc # "raised"

\* C7, amended: no failure of the session construction, of the probe, of the
\* create call or of a fetch attempt (transport error, error status, malformed
\* body, timeout) leaves the invocation as an exception: a failed session
\* construction or create call ends it by returning None, and the only
\* exception that leaves it is the cancellation of its own task while it is
\* suspended in a call or a sleep.
C7_OnlyCancellationEscapes ==
    /\ I.pc = "raised" => I.exit = "cancelled"
    /\ (I.pc # "idle" /\ I.session = "unopened")
           => Returned(I) /\ I.result = PyNone
    /\ I.createResp.kind \notin {"none", "ok"}
           => Returned(I) /\ I.result = PyNone

C7_Witness ==
    /\ I.probeResp.kind = "transport" /\ I.createResp.kind = "timeout"
    /\ Returned(I) /\ I.result = PyNone

\* the data values of the successful responses of the fetch endpoint
FetchedData(s) ==
    {s.fetchLog[j].data : j \in Yielding(s, LAMBDA d : TRUE)}
        \cup (IF s.probeResp.kind = "ok" THEN {s.probeResp.data} ELSE {})

\* C8: a returned result is None or a data value of a successful response of
\* the fetch endpoint in this invocation, and then neither "0" nor null nor
\* absent.
C8_ResultIsFetchedId ==
    Returned(I)
        => \/ I.result = PyNone /\ I.exit \in {"error", "exhausted"}
           \/ /\ I.exit \in {"probe_hit", "fetch_hit"}
              /\ I.result \in FetchedData(I)
              /\ I.result \notin {Str("0"), PyNone, Absent}

C8_Witness ==
    /\ Returned(I) /\ I.exit = "fetch_hit" /\ I.result = Str("abc")
    /\ I.probeResp = Resp("ok", Str("0"))

\* the response r was accepted: its data was returned at once
ProbeAccepted(s) ==
    Returned(s) /\ s.exit = "probe_hit" /\ s.result = s.probeResp.data
        /\ Len(s.reqs) = 1

AttemptAccepted(s, j) ==
    Returned(s) /\ s.exit = "fetch_hit" /\ s.result = s.fetchLog[j].data
        /\ j = Len(s.fetchLog) /\ Len(s.reqs) = 2 + j

\* every successful response is accepted exactly when its data satisfies P
AcceptsExactly(s, P(_)) ==
    /\ s.probeResp.kind = "ok" => (ProbeAccepted(s) <=> P(s.probeResp.data))
    /\ \A j \in 1..Len(s.fetchLog) :
          s.fetchLog[j].kind = "ok"
              => (AttemptAccepted(s, j) <=> P(s.fetchLog[j].data))

\* C9 as stated: the probe and every attempt accept exactly the data values
\* that are present and not "0", the empty string and the other falsy values
\* included.
C9_Original == AcceptsExactly(I, PresentNonSentinel)

\* C9, amended: the probe and every attempt accept exactly the data values
\* that are truthy in Python and not equal to "0": the empty string and the
\* other falsy values (0, false, empty containers) are rejected like "0",
\* null and absent.
C9_AcceptsTruthyNonSentinel == AcceptsExactly(I, NonEmptyNonSentinel)

C9_Witness ==
    /\ I.probeResp = Resp("ok", Int0)
    /\ Len(I.fetchLog) = 2 /\ I.fetchLog[1] = Resp("ok", Str(""))
    /\ AttemptAccepted(I, 2)

(***************************************************************************)
(* SpecSeq: the invocations run one after the other against a remote       *)
(* service that keeps the identifier it assigned to a wallet address:      *)
(* remote[a] is that identifier, None while there is none.                 *)
(***************************************************************************)
\* what the fetch endpoint may answer for address a: a failure, "0" (nothing
\* assigned, or not visible yet), or the identifier it holds
RemoteFetchResponses(a) ==
    {Resp("transport", Absent), Resp("ok", Str("0"))}
        \cup (IF remote[a] # PyNone THEN {Resp("ok", remote[a])} ELSE {})

\* the identifiers address a may have after a create call answered by r: a
\* successful create assigns one if there is none, and keeps the one there is
RemoteAfterCreate(a, r) ==
    IF r.kind = "ok" /\ remote[a] = PyNone THEN Ids ELSE {remote[a]}

SeqInvoke(i) ==
    /\ inv[i].pc = "idle"
    /\ \A j \in Invs : j < i => inv[j].pc \in {"done", "raised"}
    /\ \E a \in Addrs, ok \in BOOLEAN :
          Set(i, Begin(Call(inv[i], "alice", PyNone), a, ok))
    /\ UNCHANGED remote

SeqProbeReturns(i) ==
    /\ inv[i].pc = "probe"
    /\ \E r \in RemoteFetchResponses(inv[i].addr) :
          Set(i, ProbeDone(inv[i], r, Latency(r)))
    /\ UNCHANGED remote

SeqCreateReturns(i) ==
    /\ inv[i].pc = "create"
    /\ \E r \in {Resp("ok", Absent), Resp("status", Absent)} :
          /\ Set(i, CreateDone(inv[i], r, Latency(r)))
          /\ \E v \in RemoteAfterCreate(inv[i].addr, r) :
                remote' = [remote EXCEPT ![inv[i].addr] = v]

SeqSettleElapses(i) ==
    /\ inv[i].pc = "settle"
    /\ Set(i, SettleDone(inv[i], 0))
    /\ UNCHANGED remote

SeqFetchReturns(i) ==
    /\ inv[i].pc = "fetch"
    /\ \E r \in RemoteFetchResponses(inv[i].addr) :
          Set(i, FetchDone(inv[i], r, Latency(r)))
    /\ UNCHANGED remote

SeqRetryElapses(i) ==
    /\ inv[i].pc = "retry_wait"
    /\ Set(i, RetryDone(inv[i], 0))
    /\ UNCHANGED remote

NextSeq ==
    \E i \in Invs :
        \/ SeqInvoke(i)
        \/ SeqProbeReturns(i)
        \/ SeqCreateReturns(i)
        \/ SeqSettleElapses(i)
        \/ SeqFetchReturns(i)
        \/ SeqRetryElapses(i)
        \/ Cancel(i)

SpecSeq == Init /\ [][NextSeq]_vars

(***************************************************************************)
(* SpecConc: the invocations run concurrently, their steps interleaved by  *)
(* the event loop, with any arguments, against the same remote service.    *)
(***************************************************************************)
ConcInvoke(i) ==
    /\ inv[i].pc = "idle"
    /\ \E a \in Addrs, ok \in BOOLEAN, uh \in CallArgs :
          Set(i, Begin(Call(inv[i], uh[1], uh[2]), a, ok))
    /\ UNCHANGED remote

NextConc ==
    \E i \in Invs :
        \/ ConcInvoke(i)
        \/ SeqProbeReturns(i)
        \/ SeqCreateReturns(i)
        \/ SeqSettleElapses(i)
        \/ SeqFetchReturns(i)
        \/ SeqRetryElapses(i)
        \/ Cancel(i)

SpecConc == Init /\ [][NextConc]_vars

\* C10: when the first invocation went through create and returned v from its
\* retry loop, and the probe of the second invocation, for the same wallet
\* address, finds an identity, the second invocation returns the same v and
\* calls create never.
C10_Idempotent ==
    ( /\ Returned(inv[1]) /\ inv[1].exit = "fetch_hit"
      /\ NCalls(inv[1], "create") = 1
      /\ inv[2].addr = inv[1].addr
      /\ inv[2].probeResp.kind = "ok"
      /\ NonEmptyNonSentinel(inv[2].probeResp.data) )
        => /\ Returned(inv[2])
           /\ inv[2].result = inv[1].result
           /\ NCalls(inv[2], "create") = 0
           /\ Len(inv[2].reqs) = 1

C10_Witness ==
    /\ Returned(inv[1]) /\ inv[1].exit = "fetch_hit"
    /\ inv[1].result = Str("xyz") /\ Len(inv[1].fetchLog) = 2
    /\ inv[2].addr = inv[1].addr
    /\ Returned(inv[2]) /\ inv[2].exit = "probe_hit"
    /\ inv[2].result = Str("xyz")

Ended(s) == s.pc \in {"done", "raised"}

\* C11: the session an invocation opened is closed in every state in which the
\* invocation has ended, however it ended, and it is open whenever a request
\* of the invocation is in flight or the invocation sleeps: no request is
\* issued on a closed session.
C11_SessionReleased ==
    /\ Ended(I) => I.session # "open"
    /\ (Ended(I) /\ I.reqs # <<>>) => I.session = "closed"
    /\ I.pc \in Suspended => I.session = "open"

C11_Witness ==
    /\ Ended(I) /\ I.exit = "exhausted" /\ I.session = "closed"
    /\ Len(I.reqs) = 5

Duration(s, j) == s.reqs[j].end - s.reqs[j].at

Inputs(s) ==
    <<s.pc = "idle", s.addr, s.pc # "idle" /\ s.session = "unopened",
      s.probeResp, s.createResp, s.fetchLog, s.clock, s.exit = "cancelled">>

\* what an invocation has done so far: where it is, the requests it has issued,
\* the waits it has called, its result
Behaviour(s) ==
    <<s.pc, s.attempt, s.session,
      [j \in 1..Len(s.reqs) |-> <<s.reqs[j].ep, s.reqs[j].body, s.reqs[j].at>>],
      s.waits, s.result, s.exit>>

NoInterference ==
    \A i \in Invs : inv[i]' # inv[i] => \A j \in Invs \ {i} : inv[j]' = inv[j]

Determined ==
    \A i, j \in Invs : Inputs(inv[i]) = Inputs(inv[j])
                          => Behaviour(inv[i]) = Behaviour(inv[j])

\* C13: in every interleaving of concurrent invocations, a step of one
\* invocation leaves the state of every other one unchanged, and what an
\* invocation has done (requests, waits, result) is a function of what it was
\* given itself (address, own responses): two invocations given the same have
\* done the same, whatever the other one did, failed at or ended with.
C13_Independent == [][NoInterference]_vars /\ []Determined

C13_Witness ==
    /\ inv[1].pc = "raised" /\ Len(inv[1].fetchLog) = 1
    /\ inv[2].pc = "retry_wait" /\ inv[2].attempt = 1
    /\ inv[1].addr = inv[2].addr

\* the state of the spec's state machine an invocation is in; a cancelled
\* invocation is in none of them
Phase(s) ==
    CASE s.pc = "idle" -> <<"START", 0>>
      [] s.pc = "probe" -> <<"PROBE", 0>>
      [] s.pc = "create" -> <<"CREATE", 0>>
      [] s.pc = "settle" -> <<"WAIT_SETTLE", 0>>
      [] s.pc = "fetch" -> <<"FETCH_ATTEMPT", s.attempt + 1>>
      [] s.pc = "retry_wait" -> <<"RETRY_WAIT", s.attempt + 1>>
      [] s.pc = "done" /\ s.exit \in {"probe_hit", "fetch_hit"} -> <<"RESOLVED", 0>>
      [] s.pc = "done" /\ s.exit = "exhausted" -> <<"EXHAUSTED", 0>>
      [] s.pc = "done" /\ s.exit = "error" -> <<"ABORTED", 0>>
      [] OTHER -> <<"CANCELLED", 0>>

\* the transitions of the spec's state machine
Transition(p, q) ==
    \/ p = <<"START", 0>> /\ q = <<"PROBE", 0>>
    \/ p = <<"PROBE", 0>> /\ q \in {<<"RESOLVED", 0>>, <<"CREATE", 0>>}
    \/ p = <<"CREATE", 0>> /\ q \in {<<"ABORTED", 0>>, <<"WAIT_SETTLE", 0>>}
    \/ p = <<"WAIT_SETTLE", 0>> /\ q = <<"FETCH_ATTEMPT", 1>>
    \/ /\ p[1] = "FETCH_ATTEMPT" /\ p[2] \in 1..3
       /\ \/ q = <<"RESOLVED", 0>>
          \/ p[2] < 3 /\ q = <<"RETRY_WAIT", p[2]>>
          \/ p[2] = 3 /\ q = <<"EXHAUSTED", 0>>
    \/ p[1] = "RETRY_WAIT" /\ q = <<"FETCH_ATTEMPT", p[2] + 1>>

\* the result is a valid identifier exactly in RESOLVED, None in the other ends
ResultFits(s) ==
    /\ Phase(s) = <<"RESOLVED", 0>> => NonEmptyNonSentinel(s.result)
    /\ Phase(s)[1] \in {"ABORTED", "EXHAUSTED"} => s.result = PyNone
    /\ Phase(s) # <<"RESOLVED", 0>> => s.result = PyNone

\* C14 as stated: every step of an invocation is a transition of the state
\* machine START -> PROBE -> {RESOLVED | CREATE} -> {ABORTED | WAIT_SETTLE} ->
\* FETCH_ATTEMPT(1..3) -> {RESOLVED | RETRY_WAIT -> FETCH_ATTEMPT(i+1) |
\* EXHAUSTED}; ABORTED is entered only from CREATE, and the result is a valid
\* identifier exactly in RESOLVED.
C14_Original ==
    [][Transition(Phase(I), Phase(I')) /\ ResultFits(I')]_vars

\* C14, amended: every step of an invocation is a transition of that state
\* machine, or one of two more: START -> ABORTED, when the session cannot be
\* constructed (None is returned before any request), and, from any state in
\* which the invocation is suspended (PROBE, CREATE, WAIT_SETTLE,
\* FETCH_ATTEMPT, RETRY_WAIT), the cancellation of its task, which ends it
\* without a result. No state is skipped or revisited, and the result is a
\* valid identifier exactly in RESOLVED and None in ABORTED and EXHAUSTED.
C14_StateMachine ==
    [][ /\ \/ Transition(Phase(I), Phase(I'))
           \/ Phase(I) = <<"START", 0>> /\ Phase(I') = <<"ABORTED", 0>>
                 /\ I'.reqs = <<>>
           \/ Phase(I)[1] \in {"PROBE", "CREATE", "WAIT_SETTLE",
                               "FETCH_ATTEMPT", "RETRY_WAIT"}
                 /\ Phase(I') = <<"CANCELLED", 0>>
        /\ ResultFits(I') ]_vars

C14_Witness ==
    /\ Phase(I) = <<"EXHAUSTED", 0>>
    /\ I.waits = <<10, 5, 10>> /\ Len(I.fetchLog) = 3

\* a failed attempt: the call raised (transport error, timeout, error status,
\* malformed or non-object body) or succeeded without a valid identifier
FailedAttempt(r) == ~(r.kind = "ok" /\ NonEmptyNonSentinel(r.data))

\* C15: every failed attempt of the loop, of whatever kind, uses up exactly one
\* of the 3 attempts and neither raises nor aborts: after failed attempt j < 3
\* the wait of the schedule (5 after attempt 1, 10 after attempt 2) is called
\* and then attempt j + 1 is issued; after failed attempt 3 None is returned.
C15_FailedAttemptsAlike ==
    /\ I.fetchLog # <<>> => I.exit # "error"
    /\ Len(I.reqs) <= 2 => I.fetchLog = <<>>
    /\ Len(I.reqs) > 2
          => Len(I.reqs) - 2 = Len(I.fetchLog)
                + (IF I.reqs[Len(I.reqs)].end = -1 THEN 1 ELSE 0)
    /\ \A j \in 1..Len(I.fetchLog) :
          FailedAttempt(I.fetchLog[j])
              => /\ j <= 3
                 /\ j < 3 => /\ Len(I.waits) >= j + 1
                             /\ I.waits[j + 1] = <<5, 10>>[j]
                             /\ Len(I.fetchLog) = j
                                   => \/ I.pc = "retry_wait" /\ Len(I.reqs) = 2 + j
                                      \/ I.pc = "fetch" /\ Len(I.reqs) = 3 + j
                                      \/ I.exit = "cancelled"
                             /\ Len(I.reqs) > 2 + j => I.reqs[3 + j].ep = "get"
                 /\ j = 3 => Returned(I) /\ I.exit = "exhausted"

C15_Witness ==
    /\ Len(I.fetchLog) = 3 /\ I.exit = "exhausted"
    /\ I.fetchLog[1].kind = "transport" /\ I.fetchLog[2].kind = "timeout"
    /\ I.fetchLog[3].kind = "malformed"

\* C16: the first request of an invocation is the probe; once the probe has
\* failed in any way (it raised, or it succeeded without a valid identifier),
\* the invocation has not ended there: its second request is the create call,
\* issued at the very time the probe ended (no wait, no second probe), and the
\* fetch endpoint is only called again after the create call.
C16_ProbeNotRetried ==
    /\ I.reqs # <<>> => I.reqs[1].ep = "get"
    /\ (I.probeResp.kind # "none"
          /\ ~(I.probeResp.kind = "ok" /\ NonEmptyNonSentinel(I.probeResp.data)))
          => /\ Len(I.reqs) >= 2
             /\ I.reqs[2].ep = "create"
             /\ I.reqs[2].at = I.reqs[1].end
             /\ I.waits = <<>> \/ I.reqs[2].end >= 0

C16_Witness ==
    /\ I.probeResp.kind = "malformed" /\ I.pc = "create"
    /\ Len(I.reqs) = 2 /\ I.waits = <<>>

\* C17: whenever the create call has returned a 2xx status, whatever its body
\* (a JSON document, empty, not JSON), the invocation has gone on to the
\* settle delay: it has called sleep(10) and has not ended with the create call.
C17_Original ==
    I.createResp.kind \in {"ok", "malformed"}
        => /\ I.waits # <<>> /\ I.waits[1] = 10
           /\ I.exit # "error"

\* C18: two invocations given the same wallet address and the same responses
\* have issued the same requests, called the same waits and have the same
\* result, whatever their arguments user and headers are; every request
\* carries the wallet address of its invocation as its body and none of the
\* caller's headers.
C18_ArgsUnused ==
    /\ \A i, j \in Invs :
          Inputs(inv[i]) = Inputs(inv[j])
              => /\ inv[i].reqs = inv[j].reqs
                 /\ inv[i].waits = inv[j].waits
                 /\ inv[i].pc = inv[j].pc
                 /\ inv[i].result = inv[j].result
    /\ \A i \in Invs : \A k \in 1..Len(inv[i].reqs) :
          /\ inv[i].reqs[k].body = inv[i].addr
          /\ inv[i].reqs[k].hdrs = PyNone

C18_Witness ==
    /\ inv[1].user # inv[2].user /\ inv[1].headers # inv[2].headers
    /\ Inputs(inv[1]) = Inputs(inv[2])
    /\ Returned(inv[1]) /\ inv[1].exit = "fetch_hit" /\ Len(inv[1].reqs) = 4
    /\ Returned(inv[2]) /\ inv[2].result = inv[1].result

\* C19: in every state of an invocation at most 1 create call, at most 4 calls
\* of the fetch endpoint and at most 5 calls in all have been issued; every
\* call but the last has ended before the next was issued; the create call is
\* the second call, after the probe has ended and before every fetch of the
\* loop; the waits called so far are a prefix of 10, 5, 10.
C19_CallBudget ==
    /\ NCalls(I, "create") <= 1
    /\ NCalls(I, "get") <= 4
    /\ Len(I.reqs) <= 5
    /\ \A j \in 1..Len(I.reqs) :
          /\ j < Len(I.reqs) => /\ I.reqs[j].end >= I.reqs[j].at
                                /\ I.reqs[j + 1].at >= I.reqs[j].end
          /\ (I.reqs[j].ep = "create") <=> (j = 2)
    /\ Len(I.waits) <= 3
    /\ I.waits = SubSeq(<<10, 5, 10>>, 1, Len(I.waits))

C19_Witness ==
    /\ Len(I.reqs) = 5 /\ NCalls(I, "get") = 4 /\ NCalls(I, "create") = 1
    /\ I.waits = <<10, 5, 10>> /\ I.pc = "fetch"

(***************************************************************************)
(* SpecLive: one invocation whose task is not cancelled; every call        *)
(* eventually returns a response, fails or times out, every sleep          *)
(* eventually elapses, and the event loop then resumes the coroutine.      *)
(***************************************************************************)
NextLive ==
    \/ Invoke(1)
    \/ ProbeReturns(1)
    \/ CreateReturns(1)
    \/ SettleElapses(1)
    \/ FetchReturns(1)
    \/ RetryElapses(1)

SpecLive == Init /\ [][NextLive]_vars /\ WF_vars(NextLive)

\* C20: when every call eventually ends and every sleep eventually elapses, an
\* invocation that was called eventually returns, whatever the remote answers
\* ("0" for ever included).
C20_Terminates == (I.pc # "idle") ~> Returned(I)

C20_Witness ==
    /\ Returned(I) /\ I.exit = "exhausted"
    /\ I.probeResp = Resp("ok", Str("0"))
    /\ \A j \in 1..3 : I.fetchLog[j] = Resp("ok", Str("0"))
====
